---------------------------- MODULE Spec2Model ----------------------------
(***************************************************************************)
(* Model of the retail warehouse loader src/etl/etl.py: the cleaners, the  *)
(* date derivation, the sequence-backed dimension loads, the dim_date      *)
(* upsert, the key resolution and the fact load, run against an Oracle     *)
(* schema that persists between runs of the script.                        *)
(*                                                                         *)
(* A data frame is a sequence of rows, a row a record of cells.  A cell is *)
(* a number Num(n), a string Str(<<chars>>), a date text DTxt, a timestamp *)
(* Ts or the missing value NA (NaN, NaT, <NA>, SQL NULL).                  *)
(***************************************************************************)
EXTENDS Integers, Sequences, FiniteSets, TLC

VARIABLES
    files,        \* the four CSV extracts on disk (etl.py:50-58)
    batch_size,   \* settings.BATCH_SIZE (hybrid_settings.py:63-65)
    raw,          \* raw_customers, raw_products, raw_stores, raw_sales
    cust,         \* module globals of etl.py:101-104 and 122
    prod,
    store,
    sales,
    dim_date,
    schema,       \* whether the DDL has been run (dim_customer exists)
    dim,          \* dim_customer, dim_product, dim_store: committed rows
    seq,          \* dim_customer_seq, dim_product_seq, dim_store_seq
    t_dim_date,   \* table dim_date: committed rows
    stg,          \* table stg_dim_date: [exists, rows]
    fact_sales,   \* table fact_sales: committed rows
    tx,           \* the open transaction's uncommitted view of its table
    written,      \* rows of the current to_sql already sent, in batches
    maps,         \* cust_map, prod_map, store_map, date_map
    pc,           \* position of the running script
    cur,          \* index of the dimension bulk_load is working on
    run,          \* number of the current run of the script
    hist          \* history: what the runs so far did (for the properties)

vars == <<files, batch_size, raw, cust, prod, store, sales, dim_date, schema,
          dim, seq, t_dim_date, stg, fact_sales, tx, written, maps, pc, cur,
          run, hist>>

---------------------------------------------------------------------------
(* Bounds of the model.                                                    *)

\* rows of customers.csv, rows of sales.csv before the first run, runs of
\* the script, and the largest BATCH_SIZE configured
MaxCustomers == 1
MaxSales == 1
MaxRuns == 2
MaxBatch == 2
\* rows of the extract given to a cleaner on its own
MaxRawRows == 1

---------------------------------------------------------------------------
(* Cells.                                                                  *)

NA == [k |-> "na"]
Num(n) == [k |-> "num", v |-> n]
Str(s) == [k |-> "str", s |-> s]
\* the text "a-b-c hh:00" of a sales_date cell, fields in the order written
DTxt(a, b, c, h) == [k |-> "dtxt", f |-> <<a, b, c>>, h |-> h]
Ts(y, m, d, h) == [k |-> "ts", y |-> y, m |-> m, d |-> d, h |-> h]

IsNum(c) == c.k = "num"
IsNA(c) == c.k = "na"

Digits == <<"0", "1", "2", "3", "4", "5", "6", "7", "8", "9">>

DigitVal(ch) == (CHOOSE i \in 1..10 : Digits[i] = ch) - 1

IsDigit(ch) == \E i \in 1..10 : Digits[i] = ch

RECURSIVE ParseDigits(_, _)
ParseDigits(s, acc) ==
    IF s = <<>> THEN acc
    ELSE ParseDigits(Tail(s), acc * 10 + DigitVal(Head(s)))

\* pd.to_numeric(col, errors="coerce"): numbers stay, numeric text is
\* parsed, anything else becomes NaN
to_numeric(c) ==
    IF IsNum(c) THEN c
    ELSE IF c.k = "str" /\ c.s # <<>> /\ \A i \in 1..Len(c.s) : IsDigit(c.s[i])
         THEN Num(ParseDigits(c.s, 0))
         ELSE NA

RECURSIVE lstrip(_)
lstrip(s) == IF s # <<>> /\ Head(s) = " " THEN lstrip(Tail(s)) ELSE s

RECURSIVE rstrip(_)
rstrip(s) ==
    IF s # <<>> /\ s[Len(s)] = " " THEN rstrip(SubSeq(s, 1, Len(s) - 1)) ELSE s

\* Series.str.strip(): non-strings (numbers, NaN) become NaN
str_strip(c) == IF c.k = "str" THEN Str(lstrip(rstrip(c.s))) ELSE NA

IsLeap(y) == (y % 4 = 0 /\ y % 100 # 0) \/ y % 400 = 0

DaysIn(m, y) ==
    IF m = 2 THEN (IF IsLeap(y) THEN 29 ELSE 28)
    ELSE IF m \in {4, 6, 9, 11} THEN 30 ELSE 31

\* pd.to_datetime(col, dayfirst=True, errors="coerce"): the first field is
\* the day, the second the month; what is no date becomes NaT
to_datetime(c) ==
    IF c.k = "ts" THEN c
    ELSE IF c.k = "dtxt" THEN
        LET d == c.f[1]
            m == c.f[2]
            y == c.f[3]
        IN  IF m \in 1..12 /\ d >= 1 /\ d <= DaysIn(m, y)
            THEN Ts(y, m, d, c.h) ELSE NA
    ELSE NA

\* mutant: the time of day is kept
normalize_none(c) == IF c.k = "ts" THEN c ELSE NA

\* Series.dt.normalize(): the time of day is set to midnight
normalize(c) == IF c.k = "ts" THEN Ts(c.y, c.m, c.d, 0) ELSE NA

\* strftime("%Y%m%d").astype(int)
date_key_of(c) == c.y * 10000 + c.m * 100 + c.d

\* comparisons with a missing operand are false (NaN) or <NA>, and a mask
\* entry that is <NA> selects nothing
Lt(a, b) == IsNum(a) /\ IsNum(b) /\ a.v < b.v
Le(a, b) == IsNum(a) /\ IsNum(b) /\ a.v <= b.v

---------------------------------------------------------------------------
(* Frames.                                                                 *)

Range(s) == {s[i] : i \in 1..Len(s)}

SeqsUpTo(S, n) == UNION {[1..k -> S] : k \in 0..n}

\* the columns of each extract, in the order of the CSV header
CustomerColumns == <<"customer_id", "age">>
ProductColumns == <<"product_id", "price", "cost">>
StoreColumns == <<"store_id", "store_name">>

---------------------------------------------------------------------------
(* 3. Cleaning (etl.py:63-104).  Each cleaner first assigns columns of the *)
(* frame it was given (df[...] = ...), then filters into a new frame; the  *)
(* ...Assigned operators are the frame it was given after the call.        *)

CustomerCoerced(r) == [r EXCEPT !.age = to_numeric(r.age)]

\* mutant: the upper bound of the age filter is forgotten
CustomerKeptFrom18(r) == Le(Num(18), r.age)

CustomerKept(r) == Le(Num(18), r.age) /\ Le(r.age, Num(100))

clean_customers_assigned(df) == [i \in 1..Len(df) |-> CustomerCoerced(df[i])]

clean_customers(df) == SelectSeq(clean_customers_assigned(df), CustomerKept)

ProductCoerced(r) ==
    [r EXCEPT !.price = to_numeric(r.price), !.cost = to_numeric(r.cost)]

ProductKept(r) == Lt(r.cost, r.price)

clean_products_assigned(df) == [i \in 1..Len(df) |-> ProductCoerced(df[i])]

clean_products(df) == SelectSeq(clean_products_assigned(df), ProductKept)

StoreCoerced(r) == [r EXCEPT !.store_name = str_strip(r.store_name)]

clean_stores(df) == [i \in 1..Len(df) |-> StoreCoerced(df[i])]

SaleDateParsed(r) == [r EXCEPT !.sales_date = to_datetime(r.sales_date)]

SaleHasDate(r) == ~IsNA(r.sales_date)

SaleIntsCoerced(r) ==
    [r EXCEPT !.quantity = to_numeric(r.quantity),
              !.customer_id = to_numeric(r.customer_id),
              !.product_id = to_numeric(r.product_id),
              !.store_id = to_numeric(r.store_id)]

SaleKept(r) == Lt(Num(0), r.quantity)

\* mutant: a missing discount is left missing
fillna_none(c) == c

fillna0(c) == IF IsNA(c) THEN Num(0) ELSE c

SaleMeasuresCoerced(r) ==
    [r EXCEPT !.discount_pct = fillna0(to_numeric(r.discount_pct)),
              !.unit_price = to_numeric(r.unit_price),
              !.total_amount = to_numeric(r.total_amount)]

clean_sales_assigned(df) == [i \in 1..Len(df) |-> SaleDateParsed(df[i])]

clean_sales(df) ==
    LET dated == SelectSeq(clean_sales_assigned(df), SaleHasDate)
        ints == [i \in 1..Len(dated) |-> SaleIntsCoerced(dated[i])]
        kept == SelectSeq(ints, SaleKept)
    IN  [i \in 1..Len(kept) |-> SaleMeasuresCoerced(kept[i])]

---------------------------------------------------------------------------
(* 4. build_dim_date (etl.py:109-120).                                     *)

RECURSIVE drop_duplicates(_)
drop_duplicates(s) ==
    IF s = <<>> THEN <<>>
    ELSE LET init == drop_duplicates(SubSeq(s, 1, Len(s) - 1))
             last == s[Len(s)]
         IN  IF last \in Range(init) THEN init ELSE Append(init, last)

SaleDate(r) == normalize(r.sales_date)

DateRow(c) ==
    [date_key |-> Num(date_key_of(c)),
     calendar_date |-> c,
     day |-> Num(c.d),
     month |-> Num(c.m),
     year |-> Num(c.y),
     quarter |-> Num(((c.m - 1) \div 3) + 1)]

build_dim_date(sales_df) ==
    LET uniq == drop_duplicates([i \in 1..Len(sales_df) |-> SaleDate(sales_df[i])])
    IN  [i \in 1..Len(uniq) |-> DateRow(uniq[i])]

---------------------------------------------------------------------------
(* The warehouse.  The DDL (sql/ddl_oracle.sql) is not part of the sources *)
(* read here; what the model takes from it is what etl.py itself relies on:*)
(* each dimension has its natural-key column and a surrogate-key column    *)
(* that an INSERT naming only the frame's columns leaves NULL, the three   *)
(* sequences exist, and date_key of dim_date is unique (etl.py:182).       *)

\* the dimensions in the order load_warehouse loads them (etl.py:253-255)
Tables == <<"dim_customer", "dim_product", "dim_store">>

\* the columns read back by load_warehouse (etl.py:266-268)
NaturalColumn(t) ==
    CASE t = "dim_customer" -> "customer_id"
      [] t = "dim_product" -> "product_id"
      [] t = "dim_store" -> "store_id"

SurrogateColumn(t) ==
    CASE t = "dim_customer" -> "customer_key"
      [] t = "dim_product" -> "product_key"
      [] t = "dim_store" -> "store_key"

\* the frame load_warehouse passes to bulk_load for table t
Frame(t) ==
    CASE t = "dim_customer" -> cust
      [] t = "dim_product" -> prod
      [] t = "dim_store" -> store

FrameColumns(t) ==
    CASE t = "dim_customer" -> CustomerColumns
      [] t = "dim_product" -> ProductColumns
      [] t = "dim_store" -> StoreColumns

\* key_col = df.columns[0] (etl.py:165)
key_col(t) == FrameColumns(t)[1]

\* mutant: an append that skips the rows whose natural key the table holds
InsertedRowsNew(t, df) ==
    LET Absent(r) ==
            \A i \in 1..Len(dim[t]) : dim[t][i][NaturalColumn(t)] # r[NaturalColumn(t)]
        new == SelectSeq(df, Absent)
    IN  [i \in 1..Len(new) |-> new[i] @@ (SurrogateColumn(t) :> NA)]

\* the row an INSERT of frame row r creates in dimension t: the columns of
\* the frame, and NULL in the surrogate-key column the frame does not have
InsertedRow(t, r) == r @@ (SurrogateColumn(t) :> NA)

InsertedRows(t, df) == [i \in 1..Len(df) |-> InsertedRow(t, df[i])]

Min(a, b) == IF a < b THEN a ELSE b

\* the rows the next chunk of to_sql(chunksize=BATCH_SIZE) sends
NextBatch(rows) == SubSeq(rows, written + 1, Min(written + batch_size, Len(rows)))

\* the rows bulk_load's to_sql sends for the dimension it is working on
ToInsert == InsertedRows(Tables[cur], Frame(Tables[cur]))

NoTx == <<>>

EmptyFrames == [customers |-> <<>>, products |-> <<>>, stores |-> <<>>, sales |-> <<>>]

NoMaps == [dim_customer |-> <<>>, dim_product |-> <<>>, dim_store |-> <<>>, dim_date |-> <<>>]

---------------------------------------------------------------------------
(* The extracts the model runs on.                                         *)

Customer(id, age) == [customer_id |-> id, age |-> age]

Product(id, price, cost) == [product_id |-> id, price |-> price, cost |-> cost]

Store(id, name) == [store_id |-> id, store_name |-> name]

Sale(cid, date) ==
    [sales_id |-> Num(1), customer_id |-> cid, product_id |-> Num(1),
     store_id |-> Num(1), quantity |-> Num(2), sales_date |-> date,
     discount_pct |-> Num(0), unit_price |-> Num(100), total_amount |-> Num(200)]

CustomerRows == {Customer(Num(1), Num(25)), Customer(NA, Num(25))}

ProductFiles == {<<>>, <<Product(Num(1), Num(100), Num(50))>>}

StoreFiles == {<<>>, <<Store(Num(1), Str(<<"S", " ">>))>>}

SaleRows ==
    {Sale(Num(1), DTxt(1, 1, 2024, 0)), Sale(Num(1), DTxt(2, 1, 2024, 10)),
     Sale(Str(<<"x">>), DTxt(1, 1, 2024, 10))}

\* history: pure, every run so far completed on unchanged extracts; failed,
\* the position at which this run aborted; before, the committed rows of
\* the table the current transaction writes, as it began; upserts, the
\* last two committed date merges, latest first, each with the frame given
NoHistory == [pure |-> TRUE, failed |-> "none", before |-> <<>>, upserts |-> <<>>]

\* before the script has run: nothing loaded, no schema
Boot ==
    /\ raw = EmptyFrames
    /\ cust = <<>>
    /\ prod = <<>>
    /\ store = <<>>
    /\ sales = <<>>
    /\ dim_date = <<>>
    /\ schema = FALSE
    /\ dim = [t \in Range(Tables) |-> <<>>]
    /\ seq = [t \in Range(Tables) |-> 0]
    /\ t_dim_date = <<>>
    /\ stg = [exists |-> FALSE, rows |-> <<>>]
    /\ fact_sales = <<>>
    /\ tx = NoTx
    /\ written = 0
    /\ maps = NoMaps
    /\ pc = "start"
    /\ cur = 1
    /\ run = 1
    /\ hist = NoHistory

Init ==
    /\ files \in [customers : SeqsUpTo(CustomerRows, MaxCustomers),
                  products : ProductFiles,
                  stores : StoreFiles,
                  sales : SeqsUpTo(SaleRows, MaxSales)]
    /\ batch_size \in 1..MaxBatch
    /\ Boot

db == <<schema, dim, seq, t_dim_date, stg, fact_sales>>
frames == <<raw, cust, prod, store, sales, dim_date>>

---------------------------------------------------------------------------
(* Module load (etl.py:55-58, 101-104, 122): read the extracts, clean them *)
(* and derive the dates.                                                   *)

ModuleLoad ==
    /\ pc = "start"
    /\ raw' = [customers |-> clean_customers_assigned(files.customers),
               products |-> clean_products_assigned(files.products),
               stores |-> clean_stores(files.stores),
               sales |-> clean_sales_assigned(files.sales)]
    /\ cust' = clean_customers(files.customers)
    /\ prod' = clean_products(files.products)
    /\ store' = clean_stores(files.stores)
    /\ sales' = clean_sales(files.sales)
    /\ dim_date' = build_dim_date(sales')
    /\ pc' = "initialise_schema"
    /\ UNCHANGED <<files, batch_size, db, tx, written, maps, cur, run, hist>>

---------------------------------------------------------------------------
(* 7. initialise_schema (etl.py:229-246): the DDL runs only when           *)
(* dim_customer is absent.  main then calls load_warehouse, whose first    *)
(* statement opens the transaction of the first append.                    *)

\* history: the committed rows of the table a transaction is about to write
Begin(rows) == [hist EXCEPT !.before = rows]

initialise_schema ==
    /\ pc = "initialise_schema"
    /\ schema' = TRUE
    /\ pc' = "append"
    /\ cur' = 1
    /\ tx' = dim[Tables[1]]
    /\ written' = 0
    /\ hist' = Begin(dim[Tables[1]])
    /\ UNCHANGED <<files, batch_size, frames, dim, seq, t_dim_date, stg,
                   fact_sales, maps, run>>

---------------------------------------------------------------------------
(* 6. bulk_load (etl.py:143-173).                                          *)

\* df.to_sql(if_exists="append", chunksize=BATCH_SIZE): one chunk
AppendBatch ==
    /\ pc = "append"
    /\ written < Len(ToInsert)
    /\ LET batch == NextBatch(ToInsert)
       IN  /\ tx' = tx \o batch
           /\ written' = written + Len(batch)
    /\ UNCHANGED <<files, batch_size, frames, db, maps, pc, cur, run, hist>>

\* leaving the first with-block commits; pk_seq is given for every
\* dimension, so the second with-block opens
AppendCommit ==
    /\ pc = "append"
    /\ written = Len(ToInsert)
    /\ dim' = [dim EXCEPT ![Tables[cur]] = tx]
    /\ tx' = tx
    /\ written' = 0
    /\ pc' = "backfill"
    /\ hist' = Begin(tx)
    /\ UNCHANGED <<files, batch_size, frames, schema, seq, t_dim_date, stg,
                   fact_sales, maps, cur, run>>

\* the rows the MERGE's USING clause selects: key_col IS NULL
NullRows(rows, col) == {i \in 1..Len(rows) : IsNA(rows[i][col])}

\* the ways to hand the next n sequence values to the rows of S, one each
Draws(S, first) ==
    {f \in [S -> first..(first + Cardinality(S) - 1)] :
        \A i, j \in S : f[i] = f[j] => i = j}

\* MERGE ... WHEN MATCHED THEN UPDATE SET key_col = pk_seq.NEXTVAL
BackfillUpdate(rows, col, f) ==
    [i \in 1..Len(rows) |->
        IF i \in DOMAIN f THEN [rows[i] EXCEPT ![col] = Num(f[i])] ELSE rows[i]]

\* NEXTVAL is not undone by a rollback: seq moves when the statement runs
Backfill ==
    /\ pc = "backfill"
    /\ LET t == Tables[cur]
           nulls == NullRows(tx, key_col(t))
       IN  /\ \E f \in Draws(nulls, seq[t] + 1) :
                  tx' = BackfillUpdate(tx, key_col(t), f)
           /\ seq' = [seq EXCEPT ![t] = seq[t] + Cardinality(nulls)]
    /\ pc' = "backfill_commit"
    /\ UNCHANGED <<files, batch_size, frames, schema, dim, t_dim_date, stg,
                   fact_sales, written, maps, cur, run, hist>>

\* mutant: after the last dimension load_warehouse reads the maps at once,
\* the date upsert left out
BackfillCommitThenResolve ==
    /\ pc = "backfill_commit"
    /\ dim' = [dim EXCEPT ![Tables[cur]] = tx]
    /\ written' = 0
    /\ IF cur < Len(Tables)
       THEN /\ cur' = cur + 1
            /\ pc' = "append"
            /\ tx' = dim[Tables[cur + 1]]
            /\ hist' = Begin(dim[Tables[cur + 1]])
       ELSE /\ cur' = cur
            /\ pc' = "resolve"
            /\ tx' = NoTx
            /\ hist' = hist
    /\ UNCHANGED <<files, batch_size, frames, schema, seq, t_dim_date, stg,
                   fact_sales, maps, run>>

\* leaving the second with-block commits; load_warehouse goes on to the
\* next dimension, or to upsert_dim_date
BackfillCommit ==
    /\ pc = "backfill_commit"
    /\ dim' = [dim EXCEPT ![Tables[cur]] = tx]
    /\ written' = 0
    /\ IF cur < Len(Tables)
       THEN /\ cur' = cur + 1
            /\ pc' = "append"
            /\ tx' = dim[Tables[cur + 1]]
            /\ hist' = Begin(dim[Tables[cur + 1]])
       ELSE /\ cur' = cur
            /\ pc' = "stage_create"
            /\ tx' = t_dim_date
            /\ hist' = Begin(t_dim_date)
    /\ UNCHANGED <<files, batch_size, frames, schema, seq, t_dim_date, stg,
                   fact_sales, maps, run>>

---------------------------------------------------------------------------
(* 6.1 upsert_dim_date (etl.py:179-224), one transaction.                  *)

\* to_sql(if_exists="replace"): drop and create stg_dim_date
StageCreate ==
    /\ pc = "stage_create"
    /\ stg' = [exists |-> TRUE, rows |-> <<>>]
    /\ written' = 0
    /\ pc' = "stage"
    /\ UNCHANGED <<files, batch_size, frames, schema, dim, seq, t_dim_date,
                   fact_sales, tx, maps, cur, run, hist>>

\* to_sql(chunksize=BATCH_SIZE): one chunk into stg_dim_date
StageBatch ==
    /\ pc = "stage"
    /\ written < Len(dim_date)
    /\ LET batch == NextBatch(dim_date)
       IN  /\ stg' = [stg EXCEPT !.rows = stg.rows \o batch]
           /\ written' = written + Len(batch)
    /\ UNCHANGED <<files, batch_size, frames, schema, dim, seq, t_dim_date,
                   fact_sales, tx, maps, pc, cur, run, hist>>

StageDone ==
    /\ pc = "stage"
    /\ written = Len(dim_date)
    /\ pc' = "merge"
    /\ UNCHANGED <<files, batch_size, frames, db, tx, written, maps, cur, run,
                   hist>>

\* ON (d.date_key = s.date_key)
Matched(d, s) == d.date_key = s.date_key

\* mutant: a staged row counts as unmatched when some row differs from it
NotMatchedBySome(d_rows, s) == \E i \in 1..Len(d_rows) : ~Matched(d_rows[i], s)

\* WHEN NOT MATCHED THEN INSERT: the staged rows no row of dim_date matches
NotMatched(d_rows, s) == \A i \in 1..Len(d_rows) : ~Matched(d_rows[i], s)

\* mutant: a plain INSERT ... SELECT of every staged row
MergeInsertAll(d_rows, s_rows) == d_rows \o s_rows

MergeInsert(d_rows, s_rows) ==
    LET Unmatched(s) == NotMatched(d_rows, s)
    IN  d_rows \o SelectSeq(s_rows, Unmatched)

\* the unique constraint on date_key (ORA-00001, etl.py:182)
UniqueDateKeys(rows) ==
    \A i, j \in 1..Len(rows) : rows[i].date_key = rows[j].date_key => i = j

Merge ==
    /\ pc = "merge"
    /\ UniqueDateKeys(MergeInsert(tx, stg.rows))
    /\ tx' = MergeInsert(tx, stg.rows)
    /\ pc' = "drop"
    /\ UNCHANGED <<files, batch_size, frames, db, written, maps, cur, run,
                   hist>>

\* history: a date merge was committed
Upserted(h, rows) ==
    [h EXCEPT !.upserts =
        SubSeq(<<[derived |-> dim_date, table |-> rows]>> \o @, 1, Min(2, Len(@) + 1))]

\* DROP TABLE stg_dim_date PURGE, and the end of the with-block
DropStaging ==
    /\ pc = "drop"
    /\ t_dim_date' = tx
    /\ stg' = [exists |-> FALSE, rows |-> <<>>]
    /\ tx' = NoTx
    /\ written' = 0
    /\ pc' = "resolve"
    /\ hist' = Upserted(hist, tx)
    /\ UNCHANGED <<files, batch_size, frames, schema, dim, seq, fact_sales,
                   maps, cur, run>>

---------------------------------------------------------------------------
(* 8. load_warehouse, the fact table (etl.py:263-306).                     *)

\* mutant: each key maps to a value of any row
MapsOfAnyRow(rows, kc, vc) ==
    [{rows[i][kc] : i \in 1..Len(rows)} -> {rows[i][vc] : i \in 1..Len(rows)}]

\* dict(zip(keys, values)) over the rows a SELECT without ORDER BY returns:
\* each key maps to the value of one of the rows that hold it
MapsOf(rows, kc, vc) ==
    {m \in [{rows[i][kc] : i \in 1..Len(rows)} -> {rows[i][vc] : i \in 1..Len(rows)}] :
        \A k \in DOMAIN m : \E i \in 1..Len(rows) : rows[i][kc] = k /\ rows[i][vc] = m[k]}

\* pd.to_datetime(calendar_date).dt.normalize() as the key of date_map
DateMapRows(rows) ==
    [i \in 1..Len(rows) |->
        [calendar_date |-> normalize(to_datetime(rows[i].calendar_date)),
         date_key |-> rows[i].date_key]]

\* mutant: a value that is no key of the dict maps to 0
LookupOrZero(m, c) == IF ~IsNA(c) /\ c \in DOMAIN m THEN m[c] ELSE Num(0)

\* Series.map(dict): a value that is no key of the dict, or is missing,
\* maps to NaN
Lookup(m, c) == IF ~IsNA(c) /\ c \in DOMAIN m THEN m[c] ELSE NA

Resolved(r, m) ==
    r @@ [customer_key |-> Lookup(m.dim_customer, r.customer_id),
          product_key |-> Lookup(m.dim_product, r.product_id),
          store_key |-> Lookup(m.dim_store, r.store_id),
          date_key |-> Lookup(m.dim_date, normalize(r.sales_date))]

ApplyMaps(df, m) == [i \in 1..Len(df) |-> Resolved(df[i], m)]

Resolve ==
    /\ pc = "resolve"
    /\ \E cm \in MapsOf(dim.dim_customer, "customer_id", "customer_key"),
          pm \in MapsOf(dim.dim_product, "product_id", "product_key"),
          sm \in MapsOf(dim.dim_store, "store_id", "store_key"),
          dm \in MapsOf(DateMapRows(t_dim_date), "calendar_date", "date_key") :
            maps' = [dim_customer |-> cm, dim_product |-> pm,
                     dim_store |-> sm, dim_date |-> dm]
    /\ sales' = ApplyMaps(sales, maps')
    /\ pc' = "fact"
    /\ tx' = fact_sales
    /\ written' = 0
    /\ hist' = Begin(fact_sales)
    /\ UNCHANGED <<files, batch_size, raw, cust, prod, store, dim_date, db,
                   cur, run>>

PayloadColumns ==
    {"sales_id", "customer_key", "product_key", "store_key", "date_key",
     "quantity", "unit_price", "discount_pct", "total_amount"}

PayloadRow(r) == [c \in PayloadColumns |-> r[c]]

Payload(df) == [i \in 1..Len(df) |-> PayloadRow(df[i])]

\* payload.to_sql(if_exists="append", chunksize=BATCH_SIZE): one chunk
FactBatch ==
    /\ pc = "fact"
    /\ written < Len(sales)
    /\ LET batch == NextBatch(Payload(sales))
       IN  /\ tx' = tx \o batch
           /\ written' = written + Len(batch)
    /\ UNCHANGED <<files, batch_size, frames, db, maps, pc, cur, run, hist>>

\* leaving the with-block commits; main logs the completion
FactCommit ==
    /\ pc = "fact"
    /\ written = Len(sales)
    /\ fact_sales' = tx
    /\ tx' = NoTx
    /\ written' = 0
    /\ pc' = "Done"
    /\ UNCHANGED <<files, batch_size, frames, schema, dim, seq, t_dim_date,
                   stg, maps, cur, run, hist>>

---------------------------------------------------------------------------
(* Failures.  A statement or a commit raises (connection lost, constraint  *)
(* violated); the with-block rolls its transaction back and the exception  *)
(* leaves main, which catches nothing (etl.py:312-319).                    *)

\* the positions inside a with engine.begin() block
InTransactionAt ==
    {"append", "backfill", "backfill_commit", "stage_create", "stage", "merge",
     "drop", "fact"}

InTransaction == pc \in InTransactionAt

Failed == [hist EXCEPT !.failed = pc]

\* the rows sent to stg_dim_date are rolled back with the transaction
RolledBackStaging == [stg EXCEPT !.rows = <<>>]

\* mutant: the exception is swallowed and the run goes on
FailIgnored ==
    /\ InTransaction \/ pc \in {"initialise_schema", "resolve"}
    /\ hist.failed = "none"
    /\ hist' = Failed
    /\ UNCHANGED <<files, batch_size, frames, db, tx, written, maps, pc, cur, run>>

Fail ==
    /\ InTransaction \/ pc \in {"initialise_schema", "resolve"}
    /\ pc' = "Aborted"
    /\ tx' = NoTx
    /\ written' = 0
    /\ stg' = RolledBackStaging
    /\ hist' = Failed
    /\ UNCHANGED <<files, batch_size, frames, schema, dim, seq, t_dim_date,
                   fact_sales, maps, cur, run>>

\* Oracle commits the open transaction before it runs a DDL statement, so
\* a DROP TABLE that fails once it has started leaves the MERGE (and the
\* staged rows) committed; the rollback of the with-block then undoes
\* nothing
FailDropAfterImplicitCommit ==
    /\ pc = "drop"
    /\ t_dim_date' = tx
    /\ pc' = "Aborted"
    /\ tx' = NoTx
    /\ written' = 0
    /\ hist' = Upserted(Failed, tx)
    /\ UNCHANGED <<files, batch_size, frames, schema, dim, seq, stg,
                   fact_sales, maps, cur, run>>

---------------------------------------------------------------------------
(* The script is run again, on the same extracts or after a sale was added *)
(* to sales.csv; the warehouse is what the earlier runs left.              *)

NewRun ==
    /\ pc \in {"Done", "Aborted"}
    /\ run < MaxRuns
    /\ \/ files' = files
       \/ /\ Len(files.sales) <= MaxSales
          /\ \E r \in SaleRows : files' = [files EXCEPT !.sales = Append(@, r)]
    /\ run' = run + 1
    /\ pc' = "start"
    /\ raw' = EmptyFrames
    /\ cust' = <<>>
    /\ prod' = <<>>
    /\ store' = <<>>
    /\ sales' = <<>>
    /\ dim_date' = <<>>
    /\ maps' = NoMaps
    /\ cur' = 1
    /\ tx' = NoTx
    /\ written' = 0
    /\ hist' = [pure |-> hist.pure /\ pc = "Done" /\ files' = files,
                failed |-> "none", before |-> <<>>, upserts |-> hist.upserts]
    /\ UNCHANGED <<batch_size, db>>

Next ==
    \/ ModuleLoad
    \/ initialise_schema
    \/ AppendBatch
    \/ AppendCommit
    \/ Backfill
    \/ BackfillCommit
    \/ StageCreate
    \/ StageBatch
    \/ StageDone
    \/ Merge
    \/ DropStaging
    \/ Resolve
    \/ FactBatch
    \/ FactCommit
    \/ Fail
    \/ FailDropAfterImplicitCommit
    \/ NewRun

Spec == Init /\ [][Next]_vars

---------------------------------------------------------------------------
(* The cleaners on their own: one extract with malformed, missing and      *)
(* out-of-range cells, the others empty, and the module load applied.      *)

RawAges ==
    {Num(17), Num(18), Num(100), Num(101), Str(<<"2", "5">>), Str(<<"a">>), NA}

RawAmounts == {Num(50), Num(100), Str(<<"6", "0">>), Str(<<"a">>), NA}

RawNames == {Str(<<" ", "S", " ">>), Str(<<"S">>), NA}

RawQuantities == {Num(2), Num(0), Num(-1), Str(<<"3">>), Str(<<"a">>), NA}

RawDates ==
    {DTxt(1, 1, 2024, 0), DTxt(29, 2, 2024, 10), DTxt(29, 2, 2023, 0),
     DTxt(31, 4, 2024, 0), Str(<<"a">>), NA}

RawCustomerRows == {Customer(Num(1), a) : a \in RawAges}

RawProductRows == {Product(Num(1), p, c) : p \in RawAmounts, c \in RawAmounts}

RawStoreRows == {Store(Num(1), n) : n \in RawNames}

\* unit_price, discount_pct, total_amount of a raw sale
RawMeasures ==
    {<<Num(100), Num(5), Num(200)>>, <<Str(<<"a">>), NA, Num(200)>>,
     <<Num(100), Str(<<"a">>), Str(<<"a">>)>>, <<NA, Num(5), NA>>}

RawSaleRows ==
    {[Sale(Num(1), d) EXCEPT !.quantity = q, !.unit_price = m[1],
                             !.discount_pct = m[2], !.total_amount = m[3]] :
        d \in RawDates, q \in RawQuantities, m \in RawMeasures}

CleanInit ==
    /\ files \in
         {[EmptyFrames EXCEPT !.customers = f] : f \in SeqsUpTo(RawCustomerRows, MaxRawRows)}
         \cup {[EmptyFrames EXCEPT !.products = f] : f \in SeqsUpTo(RawProductRows, MaxRawRows)}
         \cup {[EmptyFrames EXCEPT !.stores = f] : f \in SeqsUpTo(RawStoreRows, MaxRawRows)}
         \cup {[EmptyFrames EXCEPT !.sales = f] : f \in SeqsUpTo(RawSaleRows, MaxRawRows)}
    /\ batch_size = 1
    /\ Boot

CleanNext == ModuleLoad

CleanSpec == CleanInit /\ [][CleanNext]_vars

\* one run of the script, from the module load to the end of main, on such
\* an extract
LoadNext ==
    \/ ModuleLoad
    \/ initialise_schema
    \/ AppendBatch
    \/ AppendCommit
    \/ Backfill
    \/ BackfillCommit
    \/ StageCreate
    \/ StageBatch
    \/ StageDone
    \/ Merge
    \/ DropStaging
    \/ Resolve
    \/ FactBatch
    \/ FactCommit
    \/ Fail
    \/ FailDropAfterImplicitCommit

LoadSpec == CleanInit /\ [][LoadNext]_vars

---------------------------------------------------------------------------
(* Properties.                                                             *)

\* bulk_load of the c-th dimension has returned in this run
BulkLoaded(c) ==
    \/ pc \in {"stage_create", "stage", "merge", "drop", "resolve", "fact", "Done"}
    \/ pc \in {"append", "backfill", "backfill_commit"} /\ cur > c

DateKeys(rows) == {rows[i].date_key : i \in 1..Len(rows)}

\* some row of dimension t holds natural key c (NULL is no key)
InDimension(t, c) ==
    ~IsNA(c) /\ \E i \in 1..Len(dim[t]) : dim[t][i][NaturalColumn(t)] = c

\* k is the surrogate key dimension t records for natural key c
Recorded(t, c, k) ==
    \E i \in 1..Len(dim[t]) :
        dim[t][i][NaturalColumn(t)] = c /\ dim[t][i][SurrogateColumn(t)] = k

DateRecorded(c, k) ==
    \E i \in 1..Len(t_dim_date) :
        t_dim_date[i].calendar_date = c /\ t_dim_date[i].date_key = k

\* the rows of fact_sales this run's fact load appended
Appended == SubSeq(fact_sales, Len(hist.before) + 1, Len(fact_sales))

\* C1: after bulk_load returns for a dimension, every row of the table holds
\* a non-null surrogate key that no other row holds, and the backfill leaves
\* the surrogate key of every row that already held one as it was.
C1_SurrogateKeysBackfilled ==
    /\ \A c \in 1..Len(Tables) :
         BulkLoaded(c) =>
           LET rows == dim[Tables[c]]
               sc == SurrogateColumn(Tables[c])
           IN  \A i \in 1..Len(rows) :
                 /\ ~IsNA(rows[i][sc])
                 /\ \A j \in 1..Len(rows) : rows[i][sc] = rows[j][sc] => i = j
    /\ pc = "backfill_commit" =>
         LET sc == SurrogateColumn(Tables[cur])
         IN  \A i \in 1..Len(hist.before) :
               ~IsNA(hist.before[i][sc]) => tx[i][sc] = hist.before[i][sc]

\* C2: the date upsert is idempotent: two committed upserts in a row of the
\* same derived date set leave dim_date with the same rows, the MERGE never
\* produces a second row for a date_key (it raises no ORA-00001, on an
\* empty table or a populated one), and dim_date never holds a duplicate.
C2_UpsertIdempotent ==
    /\ UniqueDateKeys(t_dim_date)
    /\ pc = "merge" => UniqueDateKeys(MergeInsert(tx, stg.rows))
    /\ (Len(hist.upserts) = 2
          /\ Range(hist.upserts[1].derived) = Range(hist.upserts[2].derived))
         => hist.upserts[1].table = hist.upserts[2].table

\* a second upsert of the same, non-empty date set has been committed
C2_Witness ==
    /\ pc = "resolve"
    /\ run = 2
    /\ Len(hist.upserts) = 2
    /\ hist.upserts[1].derived # <<>>
    /\ Range(hist.upserts[1].derived) = Range(hist.upserts[2].derived)
    /\ t_dim_date = hist.upserts[2].table

\* C3: an upsert of a derived set that contains every date of dim_date
\* inserts exactly the derived rows whose date_key was absent, once each,
\* and leaves every row that was present as it was, in place.
C3_UpsertInsertsExactlyNewDates ==
    (pc = "resolve" /\ DateKeys(hist.before) \subseteq DateKeys(dim_date)) =>
        LET before == hist.before
            new == DateKeys(dim_date) \ DateKeys(before)
        IN  /\ Len(t_dim_date) = Len(before) + Cardinality(new)
            /\ SubSeq(t_dim_date, 1, Len(before)) = before
            /\ {t_dim_date[i] : i \in (Len(before) + 1)..Len(t_dim_date)}
                 = {r \in Range(dim_date) : r.date_key \in new}

\* an upsert on a populated dim_date has inserted a new date
C3_Witness ==
    /\ pc = "resolve"
    /\ hist.before # <<>>
    /\ DateKeys(hist.before) \subseteq DateKeys(dim_date)
    /\ Len(t_dim_date) > Len(hist.before)

\* the cleaned sale s has all four natural keys in the dimensions
KeysExist(s) ==
    /\ InDimension("dim_customer", s.customer_id)
    /\ InDimension("dim_product", s.product_id)
    /\ InDimension("dim_store", s.store_id)
    /\ \E i \in 1..Len(t_dim_date) :
         t_dim_date[i].calendar_date = normalize(s.sales_date)

\* the four surrogate keys of fact row f are those recorded for sale s
KeysResolved(f, s) ==
    /\ ~IsNA(f.customer_key) /\ Recorded("dim_customer", s.customer_id, f.customer_key)
    /\ ~IsNA(f.product_key) /\ Recorded("dim_product", s.product_id, f.product_key)
    /\ ~IsNA(f.store_key) /\ Recorded("dim_store", s.store_id, f.store_key)
    /\ ~IsNA(f.date_key) /\ DateRecorded(normalize(s.sales_date), f.date_key)

\* C4: the fact row of a cleaned sale whose four natural keys exist in the
\* dimensions holds four non-null surrogate keys, each the key its
\* dimension records for that natural key.
C4_KeysResolved ==
    pc = "Done" =>
        /\ Len(Appended) = Len(sales)
        /\ \A i \in 1..Len(sales) :
             KeysExist(sales[i]) => KeysResolved(Appended[i], sales[i])

\* every raw row passes its cleaner, and every sale names a customer, a
\* product and a store of the extracts
ConsistentInputs ==
    /\ Len(cust) = Len(files.customers)
    /\ Len(prod) = Len(files.products)
    /\ Len(store) = Len(files.stores)
    /\ Len(sales) = Len(files.sales)
    /\ \A i \in 1..Len(sales) :
         /\ ~IsNA(sales[i].customer_id)
         /\ ~IsNA(sales[i].product_id)
         /\ ~IsNA(sales[i].store_id)
         /\ \E j \in 1..Len(cust) : cust[j].customer_id = sales[i].customer_id
         /\ \E j \in 1..Len(prod) : prod[j].product_id = sales[i].product_id
         /\ \E j \in 1..Len(store) : store[j].store_id = sales[i].store_id

SameMeasures(f, s) ==
    /\ f.quantity = s.quantity
    /\ f.unit_price = s.unit_price
    /\ f.discount_pct = s.discount_pct
    /\ f.total_amount = s.total_amount

\* 1 customer (age 25), 1 product (price 100, cost 50), 1 store and 1 sale
\* (quantity 2, unit_price 100, discount_pct 0, date 01-01-2024)
ScenarioFiles ==
    [customers |-> <<Customer(Num(1), Num(25))>>,
     products |-> <<Product(Num(1), Num(100), Num(50))>>,
     stores |-> <<Store(Num(1), Str(<<"S", " ">>))>>,
     sales |-> <<Sale(Num(1), DTxt(1, 1, 2024, 0))>>]

\* C5: after one full run on an empty warehouse with consistent inputs,
\* fact_sales holds one row per cleaned sale, with the sale's measures and
\* with four surrogate keys that resolve to the dimension rows of the run;
\* in the scenario it holds one row, of total_amount 200.
C5_EndToEnd ==
    (pc = "Done" /\ run = 1 /\ ConsistentInputs) =>
        /\ Len(fact_sales) = Len(sales)
        /\ \A i \in 1..Len(sales) :
             /\ SameMeasures(fact_sales[i], sales[i])
             /\ KeysResolved(fact_sales[i], sales[i])
        /\ files = ScenarioFiles =>
             Len(fact_sales) = 1 /\ fact_sales[1].total_amount = Num(200)

\* out is in, with some rows left out and the others, in order, related
\* by Same to the rows they come from
Selected(out, in, Same(_, _)) ==
    \E f \in [1..Len(out) -> 1..Len(in)] :
        /\ \A i, j \in 1..Len(out) : i < j => f[i] < f[j]
        /\ \A i \in 1..Len(out) : Same(out[i], in[f[i]])

SameCustomer(o, r) == o.customer_id = r.customer_id /\ o.age = to_numeric(r.age)

SameProduct(o, r) ==
    /\ o.product_id = r.product_id
    /\ o.price = to_numeric(r.price)
    /\ o.cost = to_numeric(r.cost)

SameSale(o, r) ==
    /\ o.sales_id = r.sales_id
    /\ o.quantity = to_numeric(r.quantity)
    /\ o.sales_date = to_datetime(r.sales_date)

\* C6: whatever the extracts hold, every cleaned customer has an age in
\* 18..100, every cleaned product has cost < price, every cleaned sale has
\* quantity > 0 and a parsed sales_date, and each cleaned frame is a
\* selection of the rows of its extract.
C6_CleanedDomains ==
    pc # "start" =>
        /\ \A i \in 1..Len(cust) :
             IsNum(cust[i].age) /\ cust[i].age.v >= 18 /\ cust[i].age.v <= 100
        /\ \A i \in 1..Len(prod) :
             IsNum(prod[i].cost) /\ IsNum(prod[i].price)
               /\ prod[i].cost.v < prod[i].price.v
        /\ \A i \in 1..Len(sales) :
             IsNum(sales[i].quantity) /\ sales[i].quantity.v > 0
               /\ sales[i].sales_date.k = "ts"
        /\ Selected(cust, files.customers, SameCustomer)
        /\ Selected(prod, files.products, SameProduct)
        /\ Selected(sales, files.sales, SameSale)

\* a sale with a textual quantity and a leap-day date has been cleaned
C6_Witness ==
    /\ pc # "start"
    /\ Len(sales) = 1
    /\ files.sales[1].quantity = Str(<<"3">>)
    /\ sales[1].quantity = Num(3)
    /\ sales[1].sales_date = Ts(2024, 2, 29, 10)

\* the committed rows of the table the operation at position op writes
Target(op) ==
    CASE op \in {"append", "backfill", "backfill_commit"} -> dim[Tables[cur]]
      [] op \in {"stage_create", "stage", "merge", "drop"} -> t_dim_date
      [] op = "fact" -> fact_sales

\* rows is before with every NULL of column col filled, nothing else changed
Backfilled(rows, before, col) ==
    /\ Len(rows) = Len(before)
    /\ \A i \in 1..Len(rows) :
         /\ ~IsNA(rows[i][col])
         /\ \A c \in DOMAIN before[i] :
              (c = col /\ IsNA(before[i][c])) \/ rows[i][c] = before[i][c]

\* the table at position op holds every row and update of its operation
Complete(op) ==
    CASE op = "append" -> Target(op) = hist.before \o ToInsert
      [] op \in {"backfill", "backfill_commit"} ->
            Backfilled(Target(op), hist.before, key_col(Tables[cur]))
      [] op \in {"stage_create", "stage", "merge", "drop"} ->
            Target(op) = MergeInsert(hist.before, dim_date)
      [] op = "fact" -> Target(op) = hist.before \o Payload(sales)

\* C7: each load operation is atomic: when it has failed, at whatever point,
\* its table holds none of its rows or updates, and when the run has gone
\* past it, its table holds all of them.
C7_LoadsAtomic ==
    /\ (pc = "Aborted" /\ hist.failed \in InTransactionAt) =>
         Target(hist.failed) = hist.before
    /\ pc = "resolve" => Complete("drop")
    /\ pc = "Done" => Complete("fact")

Copies(rows, df, k, col) ==
    /\ Len(rows) = k * Len(df)
    /\ \A i \in 1..Len(rows) :
         LET r == df[((i - 1) % Len(df)) + 1]
         IN  \A c \in DOMAIN r : (c = col /\ IsNA(r[c])) \/ rows[i][c] = r[c]

AllCopies ==
    /\ \A c \in 1..Len(Tables) :
         Copies(dim[Tables[c]], Frame(Tables[c]), run, key_col(Tables[c]))
    /\ Len(fact_sales) = run * Len(sales)
    /\ \A i \in 1..Len(fact_sales) :
         fact_sales[i] = Payload(sales)[((i - 1) % Len(sales)) + 1]

\* C9: no step makes dim_customer, dim_product, dim_store or fact_sales
\* shorter, and when the k-th run completes, every run so far having
\* completed on the same extracts, each of them holds k copies of the rows
\* of a run.
C9_AppendsOnly ==
    [][/\ \A c \in 1..Len(Tables) : Len(dim'[Tables[c]]) >= Len(dim[Tables[c]])
       /\ Len(fact_sales') >= Len(fact_sales)
       /\ (pc' = "Done" /\ hist'.pure) => AllCopies']_vars

\* a second run on the same extracts has completed and doubled the rows
C9_Witness ==
    /\ pc = "Done"
    /\ run = 2
    /\ hist.pure
    /\ Len(dim.dim_customer) = 2
    /\ Len(fact_sales) = 2

\* C10: a cleaned sale whose natural key is missing, or is in no row of the
\* dimension, still gets its fact row, with NULL in that surrogate key and
\* the other columns as for any sale: the measures of the sale, and for a
\* natural key the dimension holds, a key the dimension records for it.
C10_UnresolvedKeysNull ==
    pc = "Done" =>
        /\ Len(Appended) = Len(sales)
        /\ \A i \in 1..Len(sales) :
             LET f == Appended[i]
                 s == sales[i]
             IN  /\ f.sales_id = s.sales_id
                 /\ SameMeasures(f, s)
                 /\ IF InDimension("dim_customer", s.customer_id)
                    THEN Recorded("dim_customer", s.customer_id, f.customer_key)
                    ELSE IsNA(f.customer_key)
                 /\ IF InDimension("dim_product", s.product_id)
                    THEN Recorded("dim_product", s.product_id, f.product_key)
                    ELSE IsNA(f.product_key)
                 /\ IF InDimension("dim_store", s.store_id)
                    THEN Recorded("dim_store", s.store_id, f.store_key)
                    ELSE IsNA(f.store_key)
                 /\ DateRecorded(normalize(s.sales_date), f.date_key)

\* a sale of a customer and a product no dimension row holds is in
\* fact_sales, its date resolved
C10_Witness ==
    /\ pc = "Done"
    /\ \E i \in 1..Len(sales) :
         /\ ~InDimension("dim_customer", sales[i].customer_id)
         /\ ~InDimension("dim_product", sales[i].product_id)
         /\ InDimension("dim_store", sales[i].store_id)
         /\ IsNA(Appended[i].customer_key)
         /\ IsNA(Appended[i].product_key)
         /\ Appended[i].date_key = Num(20240102)

\* the stage of the pipeline a run is in: Uninitialized until the schema
\* is there, SchemaReady while the dimensions load, DimensionsLoaded while
\* the dates are upserted, DateDimensionReady while the maps are read,
\* KeysResolved while the fact rows are appended, Done after FactLoaded
Stage ==
    CASE pc \in {"start", "initialise_schema"} -> 0
      [] pc \in {"append", "backfill", "backfill_commit"} -> 1
      [] pc \in {"stage_create", "stage", "merge", "drop"} -> 2
      [] pc = "resolve" -> 3
      [] pc = "fact" -> 4
      [] pc = "Done" -> 6
      [] pc = "Aborted" -> -1

\* the number of the step a run is at, counted along load_warehouse
Position ==
    CASE pc = "start" -> 0
      [] pc = "initialise_schema" -> 1
      [] pc = "append" -> 3 * cur - 1
      [] pc = "backfill" -> 3 * cur
      [] pc = "backfill_commit" -> 3 * cur + 1
      [] pc = "stage_create" -> 11
      [] pc = "stage" -> 12
      [] pc = "merge" -> 13
      [] pc = "drop" -> 14
      [] pc = "resolve" -> 15
      [] pc = "fact" -> 16
      [] pc = "Done" -> 17
      [] pc = "Aborted" -> -1

\* the maps are read from the committed tables
MapsRead ==
    /\ maps.dim_customer \in MapsOf(dim.dim_customer, "customer_id", "customer_key")
    /\ maps.dim_product \in MapsOf(dim.dim_product, "product_id", "product_key")
    /\ maps.dim_store \in MapsOf(dim.dim_store, "store_id", "store_key")
    /\ maps.dim_date \in MapsOf(DateMapRows(t_dim_date), "calendar_date", "date_key")

\* every row of this run's dimension frames and every derived date is in a
\* committed row of its table, and no transaction is open
DimensionsCommitted ==
    /\ tx = NoTx
    /\ \A c \in 1..Len(Tables) :
         LET t == Tables[c]
         IN  \A i \in 1..Len(Frame(t)) : \E j \in 1..Len(dim[t]) :
               \A col \in DOMAIN Frame(t)[i] :
                 \/ dim[t][j][col] = Frame(t)[i][col]
                 \/ col = key_col(t) /\ IsNA(Frame(t)[i][col])
    /\ DateKeys(dim_date) \subseteq DateKeys(t_dim_date)

\* C11: a run goes through the stages in the fixed order, one step of
\* load_warehouse after the other, none skipped or taken out of turn, and
\* leaves the order only by failing; a finished or failed run moves only by
\* being started again.  The maps are read only once the three dimension
\* loads and the date upsert are committed, they change at no other step,
\* and fact_sales changes only in the fact load, after the four maps are
\* read from the committed tables.
C11_StageOrder ==
    [][/\ pc \in {"Done", "Aborted"} => pc' \in {pc, "start"}
       /\ (pc \notin {"Done", "Aborted"} /\ pc' # "Aborted") =>
            /\ Position' \in {Position, Position + 1}
            /\ Stage' >= Stage
       /\ pc' = "start" => maps' = NoMaps
       /\ (pc' # "start" /\ maps' # maps) =>
            (pc = "resolve" /\ pc' = "fact" /\ DimensionsCommitted /\ MapsRead')
       /\ fact_sales' # fact_sales => (pc = "fact" /\ pc' = "Done" /\ MapsRead)]_vars

\* a first run has gone through every stage: the maps hold the customer
\* and the date of its sale, and its fact row is committed
C11_Witness ==
    /\ pc = "Done"
    /\ run = 1
    /\ Position = 17
    /\ DOMAIN maps.dim_customer # {}
    /\ DOMAIN maps.dim_date # {}
    /\ Len(fact_sales) = 1

\* C12: no stage changes a record set it is given: once the cleaners have
\* run, the four raw frames are still what was read from the extracts, and
\* the cleaned sales stay what clean_sales returned, through key resolution
\* and the assembly of the fact rows.
C12_InputsNotMutated ==
    pc # "start" =>
        /\ raw = files
        /\ sales = clean_sales(files.sales)

\* the calendar date of a timestamp, its time of day set aside
CalendarDate(c) == [k |-> "ts", y |-> c.y, m |-> c.m, d |-> c.d, h |-> 0]

\* year * 10000 + month * 100 + day
YYYYMMDD(c) == [k |-> "num", v |-> c.y * 10000 + c.m * 100 + c.d]

\* the distinct calendar dates of the cleaned sales
SaleDates == {CalendarDate(sales[i].sales_date) : i \in 1..Len(sales)}

\* C13: the derived date frame has exactly one row per distinct calendar
\* date of the cleaned sales; its date_key values are the YYYYMMDD
\* encodings of those dates; the date_key of a row is the encoding of the
\* row's calendar_date and no two rows share one; and a run on the extracts
\* of the run before it derives the rows that run derived.
C13_DateDimension ==
    /\ pc # "start" =>
         /\ Len(dim_date) = Cardinality(SaleDates)
         /\ {dim_date[i].calendar_date : i \in 1..Len(dim_date)} = SaleDates
         /\ DateKeys(dim_date) = {YYYYMMDD(c) : c \in SaleDates}
         /\ \A i \in 1..Len(dim_date) :
              /\ dim_date[i].date_key = YYYYMMDD(dim_date[i].calendar_date)
              /\ \A j \in 1..Len(dim_date) :
                   dim_date[i].date_key = dim_date[j].date_key => i = j
    /\ (pc \in {"resolve", "fact", "Done"} /\ run > 1 /\ hist.pure
          /\ Len(hist.upserts) = 2) =>
         /\ hist.upserts[1].derived = dim_date
         /\ hist.upserts[2].derived = dim_date

\* two sales at different hours of one day and one row derived for them
C13_Witness ==
    /\ pc = "initialise_schema"
    /\ Len(sales) = 2
    /\ sales[1].sales_date # sales[2].sales_date
    /\ Len(dim_date) = 1
    /\ dim_date[1].date_key = Num(20240101)

\* the cell is missing or is no number
Unparseable(c) == IsNA(to_numeric(c))

\* the raw sale has a date and a positive quantity
Survives(r) == ~IsNA(to_datetime(r.sales_date)) /\ Lt(Num(0), to_numeric(r.quantity))

Count(df, Test(_)) == Cardinality({i \in 1..Len(df) : Test(df[i])})

AgeParses(r) == ~Unparseable(r.age)

AmountsParse(r) == ~Unparseable(r.price) /\ ~Unparseable(r.cost)

\* C14: a row whose age, price, cost, quantity or sales_date does not
\* parse is dropped by its cleaner; a sale with a date and a positive
\* quantity is kept whatever its measures: an unparseable unit_price or
\* total_amount is NULL in the cleaned sale, a missing or unparseable
\* discount_pct is 0, and the fact row of the sale holds these measures.
C14_CoercionPerField ==
    /\ pc # "start" =>
         /\ Len(cust) <= Count(files.customers, AgeParses)
         /\ \A i \in 1..Len(cust) : ~IsNA(cust[i].age)
         /\ Len(prod) <= Count(files.products, AmountsParse)
         /\ \A i \in 1..Len(prod) : ~IsNA(prod[i].price) /\ ~IsNA(prod[i].cost)
         /\ LET kept == SelectSeq(files.sales, Survives)
            IN  /\ Len(sales) = Len(kept)
                /\ \A i \in 1..Len(kept) :
                     /\ sales[i].unit_price = to_numeric(kept[i].unit_price)
                     /\ sales[i].total_amount = to_numeric(kept[i].total_amount)
                     /\ Unparseable(kept[i].unit_price) => IsNA(sales[i].unit_price)
                     /\ Unparseable(kept[i].total_amount) => IsNA(sales[i].total_amount)
                     /\ sales[i].discount_pct =
                          IF Unparseable(kept[i].discount_pct) THEN Num(0)
                          ELSE to_numeric(kept[i].discount_pct)
    /\ pc = "Done" =>
         /\ Len(Appended) = Len(sales)
         /\ \A i \in 1..Len(sales) : SameMeasures(Appended[i], sales[i])

\* a sale with text for its unit_price and no discount_pct is in fact_sales
\* with a NULL unit_price and a discount_pct of 0
C14_Witness ==
    /\ pc = "Done"
    /\ Len(files.sales) = 1
    /\ files.sales[1].unit_price = Str(<<"a">>)
    /\ IsNA(files.sales[1].discount_pct)
    /\ Len(fact_sales) = 1
    /\ IsNA(fact_sales[1].unit_price)
    /\ fact_sales[1].discount_pct = Num(0)
    /\ fact_sales[1].total_amount = Num(200)

\* some row of dimension t holds surrogate key k
KeyExists(t, k) == \E i \in 1..Len(dim[t]) : dim[t][i][SurrogateColumn(t)] = k

\* C15: whatever runs came before, a surrogate key in a row of fact_sales
\* that is not NULL is the key of a row of its dimension; in the rows a run
\* has appended it is the key of a dimension row that holds the natural key
\* of the sale the fact row was built from; and a run appends one fact row
\* for each cleaned sale, no more, however many dimension rows hold the
\* sale's natural keys.
C15_FactKeysReferToDimensions ==
    /\ \A i \in 1..Len(fact_sales) :
         LET f == fact_sales[i]
         IN  /\ ~IsNA(f.customer_key) => KeyExists("dim_customer", f.customer_key)
             /\ ~IsNA(f.product_key) => KeyExists("dim_product", f.product_key)
             /\ ~IsNA(f.store_key) => KeyExists("dim_store", f.store_key)
             /\ ~IsNA(f.date_key) => f.date_key \in DateKeys(t_dim_date)
    /\ pc = "Done" =>
         /\ Len(fact_sales) = Len(hist.before) + Len(sales)
         /\ \A i \in 1..Len(sales) :
              LET f == fact_sales[Len(hist.before) + i]
                  s == sales[i]
              IN  /\ ~IsNA(f.customer_key) =>
                        Recorded("dim_customer", s.customer_id, f.customer_key)
                  /\ ~IsNA(f.product_key) =>
                        Recorded("dim_product", s.product_id, f.product_key)
                  /\ ~IsNA(f.store_key) =>
                        Recorded("dim_store", s.store_id, f.store_key)
                  /\ ~IsNA(f.date_key) =>
                        DateRecorded(normalize(s.sales_date), f.date_key)

\* a rerun has doubled the customer of the sales, dim_date holds two
\* dates, and the run has appended one fact row for each of its two sales,
\* the date_key of each that of its sale's date
C15_Witness ==
    /\ pc = "Done"
    /\ run = 2
    /\ Len(dim.dim_customer) = 2
    /\ dim.dim_customer[1].customer_id = dim.dim_customer[2].customer_id
    /\ Len(t_dim_date) = 2
    /\ Len(sales) = 2
    /\ sales[1].customer_id = dim.dim_customer[1].customer_id
    /\ Len(fact_sales) = Len(hist.before) + 2
    /\ \A i \in 1..2 :
         fact_sales[Len(hist.before) + i].date_key = YYYYMMDD(sales[i].sales_date)

\* C16: when load_warehouse reads the maps back, no row of dim_customer,
\* dim_product or dim_store has a NULL surrogate key, whatever earlier runs
\* did or failed to do.
C16_NoNullKeyWhenMapsAreRead ==
    pc = "resolve" =>
        \A c \in 1..Len(Tables) :
            \A i \in 1..Len(dim[Tables[c]]) :
                ~IsNA(dim[Tables[c]][i][SurrogateColumn(Tables[c])])

=============================================================================
